---- MODULE Spec2Model ----
(***************************************************************************)
(* The Cosmos bridge pallet (polkadot-compat/runtime/src/cosmos.rs): the   *)
(* two storage maps, the balances of the pallet's Currency, the event log  *)
(* and the three dispatchables link_cosmos_account,                        *)
(* initiate_cross_chain_tx and complete_cross_chain_tx.                    *)
(***************************************************************************)
EXTENDS Integers, Sequences, FiniteSets, TLC

VARIABLES
    CosmosAccounts,          \* StorageMap Vec<u8> -> AccountId (OptionQuery)
    CrossChainTransactions,  \* StorageMap Hash -> CrossChainTx (OptionQuery)
    free_balance,            \* T::Currency::free_balance, per account
    reserved_balance,        \* the Currency's reserved balance, per account
    events,                  \* the events deposited so far, oldest first
    last                     \* the last dispatched call and its DispatchResult

vars == <<CosmosAccounts, CrossChainTransactions, free_balance,
          reserved_balance, events, last>>

\* Everything but the record of the last call.
Frame == <<CosmosAccounts, CrossChainTransactions, free_balance,
           reserved_balance, events>>

(***************************************************************************)
(* Bounds of the model.                                                    *)
(***************************************************************************)
MaxBalance == 1      \* the free balance the funded account starts with
MaxAmount == 1       \* amounts of initiate calls are drawn from 0..MaxAmount
MaxEvents == 3       \* calls are dispatched while fewer events are logged

(***************************************************************************)
(* Program constants.                                                      *)
(***************************************************************************)
MinCosmosAddressLen == 20
MaxCosmosAddressLen == 255

\* Two signed accounts, and an origin that is not a signed account.
Alice == "alice"
Bob == "bob"
Accounts == {Alice, Bob}
Root == "root"
Origins == Accounts \cup {Root}
Amounts == 0..MaxAmount

\* A Vec<u8> made of n copies of the byte b, and its len().
Vec(b, n) == [byte |-> b, len |-> n]
len(v) == v.len

\* The byte vectors offered to link_cosmos_account: both sides of each end
\* of the accepted length range.
LinkAddresses ==
    { Vec(1, MinCosmosAddressLen - 1), Vec(1, MinCosmosAddressLen),
      Vec(1, MaxCosmosAddressLen), Vec(1, MaxCosmosAddressLen + 1) }

\* The destination offered to initiate_cross_chain_tx, which does not
\* validate it.
DestAddresses == { Vec(2, 1) }

(***************************************************************************)
(* Storage maps: a map is a function whose domain is the set of keys that  *)
(* hold a value.                                                           *)
(***************************************************************************)
EmptyMap == [k \in {} |-> 0]
contains_key(map, key) == key \in DOMAIN map
insert(map, key, value) ==
    [k \in (DOMAIN map) \cup {key} |-> IF k = key THEN value ELSE map[k]]

\* An Option is the empty set (None) or the set of its one value (Some).
None == {}
Some(value) == {value}
unwrap(option) == CHOOSE value \in option : TRUE

\* A map read that answers a missing key with a default record, as a
\* ValueQuery map does.
get_OrDefault(map, key) ==
    IF key \in DOMAIN map THEN Some(map[key])
    ELSE Some([from |-> key[1], to_cosmos_address |-> key[2],
               amount |-> key[3], status |-> "Initiated"])

\* StorageMap::get of an OptionQuery map
get(map, key) == IF key \in DOMAIN map THEN Some(map[key]) ELSE None

\* frame_system::ensure_signed
ensure_signed(origin) == origin \in Accounts

\* T::Hashing::hash_of(&(&who, &to_cosmos_address, &amount)): a function of
\* the encoded triple, taken collision free.
hash_of(who, to_cosmos_address, amount) == <<who, to_cosmos_address, amount>>

TxHashes ==
    { hash_of(w, d, a) : w \in Accounts, d \in DestAddresses, a \in Amounts }

\* amount.saturated_into::<u128>(): the value itself when it is below 2^128,
\* as every amount of the model (at most MaxAmount) is.
saturated_into_u128(amount) == amount

Result(call, origin, args, result) ==
    [call |-> call, origin |-> origin, args |-> args, result |-> result]

(***************************************************************************)
(* link_cosmos_account                                                     *)
(***************************************************************************)
\* The length check with both comparisons strict.
ValidCosmosAddressLen_Exclusive(cosmos_address) ==
    len(cosmos_address) > MinCosmosAddressLen
        /\ len(cosmos_address) < MaxCosmosAddressLen

ValidCosmosAddressLen(cosmos_address) ==
    len(cosmos_address) >= MinCosmosAddressLen
        /\ len(cosmos_address) <= MaxCosmosAddressLen

\* The link without its check of an existing entry.
AlreadyLinked_Unchecked(cosmos_address) == FALSE

AlreadyLinked(cosmos_address) == contains_key(CosmosAccounts, cosmos_address)

CosmosAccountLinked(cosmos_address, who) ==
    [name |-> "CosmosAccountLinked", cosmos_address |-> cosmos_address,
     substrate_account |-> who]

link_cosmos_account(origin, cosmos_address) ==
    LET R(res) == Result("link_cosmos_account", origin, <<cosmos_address>>, res)
    IN  /\ Len(events) < MaxEvents
        /\ IF ~ensure_signed(origin) THEN
                /\ last' = R("BadOrigin")
                /\ UNCHANGED <<CosmosAccounts, events>>
           ELSE IF ~ValidCosmosAddressLen(cosmos_address) THEN
                /\ last' = R("InvalidCosmosAddress")
                /\ UNCHANGED <<CosmosAccounts, events>>
           ELSE IF AlreadyLinked(cosmos_address) THEN
                /\ last' = R("AccountAlreadyLinked")
                /\ UNCHANGED <<CosmosAccounts, events>>
           ELSE
                /\ CosmosAccounts' = insert(CosmosAccounts, cosmos_address, origin)
                /\ events' = Append(events, CosmosAccountLinked(cosmos_address, origin))
                /\ last' = R("Ok")
        /\ UNCHANGED <<CrossChainTransactions, free_balance, reserved_balance>>

(***************************************************************************)
(* initiate_cross_chain_tx                                                 *)
(***************************************************************************)
\* The initiation without its balance check.
HasFreeBalance_Unchecked(who, amount) == TRUE

HasFreeBalance(who, amount) == free_balance[who] >= amount

NewCrossChainTx(who, to_cosmos_address, amount) ==
    [from |-> who, to_cosmos_address |-> to_cosmos_address,
     amount |-> saturated_into_u128(amount), status |-> "Initiated"]

\* T::Currency::reserve(&who, amount): when it succeeds it moves amount from
\* the free to the reserved balance of who.  It cannot succeed beyond the
\* free balance; the Currency may refuse a reservation below that too (funds
\* that are locked, or that must stay to keep the account alive), which is
\* what granted stands for; a reservation of nothing moves nothing and
\* succeeds.
CanReserve(who, amount, granted) ==
    free_balance[who] >= amount /\ (granted \/ amount = 0)
\* A reservation that credits the reserved balance and leaves the free one.
FreeAfterReserve_Untouched(who, amount) == free_balance

\* A reservation that moves the free balance the wrong way.
FreeAfterReserve_Credits(who, amount) == [free_balance EXCEPT ![who] = @ + amount]

FreeAfterReserve(who, amount) == [free_balance EXCEPT ![who] = @ - amount]
\* A reservation that takes the free funds and does not record them as reserved.
ReservedAfterReserve_Unchanged(who, amount) == reserved_balance

ReservedAfterReserve(who, amount) == [reserved_balance EXCEPT ![who] = @ + amount]

\* An initiation event that does not carry the amount of the call.
CrossChainTransactionInitiated_NoAmount(who, to_cosmos_address, amount, tx_hash) ==
    [name |-> "CrossChainTransactionInitiated", from |-> who,
     to_cosmos_address |-> to_cosmos_address, amount |-> 0,
     tx_hash |-> tx_hash]

CrossChainTransactionInitiated(who, to_cosmos_address, amount, tx_hash) ==
    [name |-> "CrossChainTransactionInitiated", from |-> who,
     to_cosmos_address |-> to_cosmos_address, amount |-> amount,
     tx_hash |-> tx_hash]

initiate_cross_chain_tx(origin, to_cosmos_address, amount) ==
    LET R(res) == Result("initiate_cross_chain_tx", origin,
                         <<to_cosmos_address, amount>>, res)
        tx_hash == hash_of(origin, to_cosmos_address, amount)
    IN  /\ Len(events) < MaxEvents
        /\ IF ~ensure_signed(origin) THEN
                /\ last' = R("BadOrigin")
                /\ UNCHANGED <<CrossChainTransactions, free_balance,
                               reserved_balance, events>>
           ELSE IF ~HasFreeBalance(origin, amount) THEN
                /\ last' = R("InsufficientBalance")
                /\ UNCHANGED <<CrossChainTransactions, free_balance,
                               reserved_balance, events>>
           ELSE
                \* The record is stored before the reservation is attempted,
                \* and a failed reservation leaves the call by `?`: the body
                \* itself does not take the record back.
                /\ CrossChainTransactions' =
                       insert(CrossChainTransactions, tx_hash,
                              NewCrossChainTx(origin, to_cosmos_address, amount))
                /\ \E granted \in BOOLEAN :
                       IF CanReserve(origin, amount, granted) THEN
                            /\ free_balance' = FreeAfterReserve(origin, amount)
                            /\ reserved_balance' = ReservedAfterReserve(origin, amount)
                            /\ events' = Append(events,
                                   CrossChainTransactionInitiated(
                                       origin, to_cosmos_address, amount, tx_hash))
                            /\ last' = R("Ok")
                       ELSE
                            /\ last' = R("ReserveError")
                            /\ UNCHANGED <<free_balance, reserved_balance, events>>
        /\ UNCHANGED CosmosAccounts

(***************************************************************************)
(* complete_cross_chain_tx                                                 *)
(***************************************************************************)
\* enum TxStatus: the values the status field of a record can hold.
TxStatus == {"Initiated", "Completed", "Failed"}

\* A completion that marks the record Failed.
CompletedTx_Fails(tx) == [tx EXCEPT !.status = "Failed"]

\* A completion that rebuilds the record and loses its amount.
CompletedTx_ResetsAmount(tx) == [tx EXCEPT !.status = "Completed", !.amount = 0]

CompletedTx(tx) == [tx EXCEPT !.status = "Completed"]

CrossChainTransactionCompleted(tx_hash) ==
    [name |-> "CrossChainTransactionCompleted", tx_hash |-> tx_hash]

\* A completion that only the initiator of the transaction may dispatch.
complete_cross_chain_tx_InitiatorOnly(origin, tx_hash) ==
    LET R(res) == Result("complete_cross_chain_tx", origin, <<tx_hash>>, res)
    IN  /\ Len(events) < MaxEvents
        /\ IF ~ensure_signed(origin) THEN
                /\ last' = R("BadOrigin")
                /\ UNCHANGED <<CrossChainTransactions, events>>
           ELSE IF get(CrossChainTransactions, tx_hash) = None THEN
                /\ last' = R("TransactionNotFound")
                /\ UNCHANGED <<CrossChainTransactions, events>>
           ELSE IF unwrap(get(CrossChainTransactions, tx_hash)).from # origin THEN
                /\ last' = R("BadOrigin")
                /\ UNCHANGED <<CrossChainTransactions, events>>
           ELSE
                /\ CrossChainTransactions' =
                       insert(CrossChainTransactions, tx_hash,
                              CompletedTx(unwrap(get(CrossChainTransactions, tx_hash))))
                /\ events' = Append(events, CrossChainTransactionCompleted(tx_hash))
                /\ last' = R("Ok")
        /\ UNCHANGED <<CosmosAccounts, free_balance, reserved_balance>>

complete_cross_chain_tx(origin, tx_hash) ==
    LET R(res) == Result("complete_cross_chain_tx", origin, <<tx_hash>>, res)
    IN  /\ Len(events) < MaxEvents
        /\ IF ~ensure_signed(origin) THEN
                /\ last' = R("BadOrigin")
                /\ UNCHANGED <<CrossChainTransactions, events>>
           ELSE IF get(CrossChainTransactions, tx_hash) = None THEN
                /\ last' = R("TransactionNotFound")
                /\ UNCHANGED <<CrossChainTransactions, events>>
           ELSE
                /\ CrossChainTransactions' =
                       insert(CrossChainTransactions, tx_hash,
                              CompletedTx(unwrap(get(CrossChainTransactions, tx_hash))))
                /\ events' = Append(events, CrossChainTransactionCompleted(tx_hash))
                /\ last' = R("Ok")
        /\ UNCHANGED <<CosmosAccounts, free_balance, reserved_balance>>

(***************************************************************************)
(* The pallet as a state machine.                                          *)
(***************************************************************************)
\* The balances at genesis: one funded account, one without funds.
InitialBalance(a) == IF a = Alice THEN MaxBalance ELSE 0

Init ==
    /\ CosmosAccounts = EmptyMap
    /\ CrossChainTransactions = EmptyMap
    /\ free_balance = [a \in Accounts |-> InitialBalance(a)]
    /\ reserved_balance = [a \in Accounts |-> 0]
    /\ events = <<>>
    /\ last = Result("none", Root, <<>>, "Ok")

Link == \E origin \in Origins, cosmos_address \in LinkAddresses :
            link_cosmos_account(origin, cosmos_address)

Initiate == \E origin \in Origins, to \in DestAddresses, amount \in Amounts :
                initiate_cross_chain_tx(origin, to, amount)

Complete == \E origin \in Origins, tx_hash \in TxHashes :
                complete_cross_chain_tx(origin, tx_hash)

Next == Link \/ Initiate \/ Complete

Spec == Init /\ [][Next]_vars

(***************************************************************************)
(* The compatibility crate (polkadot-compat/src/lib.rs): the address       *)
(* checks of utils and the C functions of ffi.  They read and write none   *)
(* of the pallet's state; a call leaves its arguments and what it returned *)
(* in last.                                                                *)
(***************************************************************************)
MaxStrLen == 256     \* addresses handed to the checks have 0..MaxStrLen bytes
MaxChainLen == 1     \* chain names handed to ffi have 0..MaxChainLen bytes
MaxPayloadLen == 1   \* payload buffers handed to ffi have 0..MaxPayloadLen bytes

UtilsMinCosmosLen == 20
UtilsMaxCosmosLen == 255
UtilsMinPolkadotLen == 32
UtilsMaxPolkadotLen == 64

\* The cosmos check with both comparisons strict.
utils_validate_cosmos_address_Exclusive(address) ==
    len(address) > UtilsMinCosmosLen /\ len(address) < UtilsMaxCosmosLen

\* utils::validate_cosmos_address(address: &str)
utils_validate_cosmos_address(address) ==
    len(address) >= UtilsMinCosmosLen /\ len(address) <= UtilsMaxCosmosLen

\* utils::validate_polkadot_address(address: &str)
utils_validate_polkadot_address(address) ==
    len(address) >= UtilsMinPolkadotLen /\ len(address) <= UtilsMaxPolkadotLen

\* A *const c_char is None (the null pointer) or Some of the bytes before
\* the terminating NUL.
is_null(ptr) == ptr = None

\* A conversion that takes every byte string for text.
to_str_Unchecked(bytes) == Some(bytes)

\* CStr::to_str: the bytes as a &str when they are UTF-8.  Of the strings of
\* one repeated byte, the empty one and those of an ASCII byte are.
to_str(bytes) ==
    IF len(bytes) = 0 \/ bytes.byte < 128 THEN Some(bytes) ELSE None

\* What a C function returning *mut c_char can end in.
FfiNull == <<"null">>
FfiCrash == <<"crash">>
FfiString(value) == <<"string", value>>
kind(result) == result[1]

\* The CrossChainTransaction that serde_json writes into the returned string.
CrossChainTransactionJson(source_chain, dest_chain, payload) ==
    [source_chain |-> source_chain, dest_chain |-> dest_chain,
     payload |-> payload, hash |-> <<"tx_", source_chain, "_", dest_chain>>]

\* ffi::validate_cosmos_address(address: *const c_char) -> c_int
ffi_validate_cosmos_address(address) ==
    IF is_null(address) THEN 0
    ELSE IF to_str(unwrap(address)) = None THEN 0
    ELSE IF utils_validate_cosmos_address(unwrap(to_str(unwrap(address)))) THEN 1
    ELSE 0

\* ffi::validate_polkadot_address(address: *const c_char) -> c_int
ffi_validate_polkadot_address(address) ==
    IF is_null(address) THEN 0
    ELSE IF to_str(unwrap(address)) = None THEN 0
    ELSE IF utils_validate_polkadot_address(unwrap(to_str(unwrap(address)))) THEN 1
    ELSE 0

\* ffi::create_cross_chain_transaction: the results it can end in.  The
\* payload is read as payload_len bytes from the pointer; beyond the end of
\* the buffer the read is undefined, and the call may crash or return
\* whatever bytes it found.  The serialisation and CString::new do not fail
\* on a CrossChainTransaction (its JSON text has no NUL byte).
create_cross_chain_transaction(source_chain, dest_chain, payload, payload_len) ==
    IF is_null(source_chain) \/ is_null(dest_chain) \/ is_null(payload) THEN
        {FfiNull}
    ELSE IF to_str(unwrap(source_chain)) = None THEN {FfiNull}
    ELSE IF to_str(unwrap(dest_chain)) = None THEN {FfiNull}
    ELSE
        LET source_chain_str == unwrap(to_str(unwrap(source_chain)))
            dest_chain_str == unwrap(to_str(unwrap(dest_chain)))
        IN  IF payload_len <= len(unwrap(payload)) THEN
                {FfiString(CrossChainTransactionJson(
                    source_chain_str, dest_chain_str,
                    Vec(unwrap(payload).byte, payload_len)))}
            ELSE
                {FfiCrash} \cup
                { FfiString(CrossChainTransactionJson(
                      source_chain_str, dest_chain_str, Vec(garbage, payload_len)))
                  : garbage \in {0, unwrap(payload).byte} }

Strs == { Vec(97, n) : n \in 0..MaxStrLen }
AddressPtrs == {None} \cup { Some(Vec(b, n)) : b \in {97, 255}, n \in 0..MaxStrLen }
ChainPtrs == {None} \cup { Some(Vec(b, n)) : b \in {97, 255}, n \in 0..MaxChainLen }
PayloadPtrs == {None} \cup { Some(Vec(7, n)) : n \in 0..MaxPayloadLen }
PayloadLens == 0..(MaxPayloadLen + 1)

Extern == "extern"    \* the caller of a library function, not an origin

UtilsValidateCosmos ==
    \E address \in Strs :
        /\ last' = Result("utils::validate_cosmos_address", Extern, <<address>>,
                          utils_validate_cosmos_address(address))
        /\ UNCHANGED Frame

UtilsValidatePolkadot ==
    \E address \in Strs :
        /\ last' = Result("utils::validate_polkadot_address", Extern, <<address>>,
                          utils_validate_polkadot_address(address))
        /\ UNCHANGED Frame

FfiValidateCosmos ==
    \E address \in AddressPtrs :
        /\ last' = Result("ffi::validate_cosmos_address", Extern, <<address>>,
                          ffi_validate_cosmos_address(address))
        /\ UNCHANGED Frame

FfiValidatePolkadot ==
    \E address \in AddressPtrs :
        /\ last' = Result("ffi::validate_polkadot_address", Extern, <<address>>,
                          ffi_validate_polkadot_address(address))
        /\ UNCHANGED Frame

FfiCreate ==
    \E source_chain \in ChainPtrs, dest_chain \in ChainPtrs,
       payload \in PayloadPtrs, payload_len \in PayloadLens :
        \E result \in create_cross_chain_transaction(
                          source_chain, dest_chain, payload, payload_len) :
            /\ last' = Result("ffi::create_cross_chain_transaction", Extern,
                              <<source_chain, dest_chain, payload, payload_len>>,
                              result)
            /\ UNCHANGED Frame

UtilNext ==
    \/ UtilsValidateCosmos
    \/ UtilsValidatePolkadot
    \/ FfiValidateCosmos
    \/ FfiValidatePolkadot
    \/ FfiCreate

UtilSpec == Init /\ [][UtilNext]_vars

(***************************************************************************)
(* How a step is told apart: last' holds the call a step dispatched, its   *)
(* origin, its arguments and its result.                                   *)
(***************************************************************************)
LinkStep == last'.call = "link_cosmos_account" /\ last'.origin \in Accounts
InitiateStep == last'.call = "initiate_cross_chain_tx" /\ last'.origin \in Accounts
CompleteStep == last'.call = "complete_cross_chain_tx" /\ last'.origin \in Accounts

\* C1: the status of a record changes only from Initiated to Completed or to
\* Failed; a Completed or Failed record keeps its status in every later step,
\* whatever call is dispatched.
C1_StatusMonotone ==
    [][\A h \in DOMAIN CrossChainTransactions :
          h \in DOMAIN CrossChainTransactions' =>
              \/ CrossChainTransactions'[h].status = CrossChainTransactions[h].status
              \/ /\ CrossChainTransactions[h].status = "Initiated"
                 /\ CrossChainTransactions'[h].status \in {"Completed", "Failed"}
      ]_vars

\* C2: a complete_cross_chain_tx on a record that is already Completed fails
\* with TransactionNotFound, changes no state and deposits no event.
C2_SecondCompleteFails ==
    [][(/\ CompleteStep
        /\ contains_key(CrossChainTransactions, last'.args[1])
        /\ CrossChainTransactions[last'.args[1]].status = "Completed")
       => (last'.result = "TransactionNotFound" /\ UNCHANGED Frame)
      ]_vars

\* C3: a successful initiate_cross_chain_tx lowers the caller's free balance
\* by exactly amount, raises the caller's reserved balance by exactly amount
\* and leaves the balances of every other account as they were.
C3_Conservation ==
    [][(InitiateStep /\ last'.result = "Ok") =>
          LET who == last'.origin
              amount == last'.args[2]
          IN  /\ free_balance' = [free_balance EXCEPT ![who] = @ - amount]
              /\ reserved_balance' = [reserved_balance EXCEPT ![who] = @ + amount]
      ]_vars

\* C3 witness: a successful initiation of a positive amount has just reserved it.
C3_Witness ==
    /\ last.call = "initiate_cross_chain_tx"
    /\ last.result = "Ok"
    /\ last.args[2] > 0
    /\ reserved_balance[last.origin] >= last.args[2]
    /\ \E other \in Accounts : other # last.origin

\* C4: a link_cosmos_account with an address that is already linked fails
\* with AccountAlreadyLinked, whoever calls, and leaves the stored mapping as
\* it was; so no address is ever linked by two successful calls.
C4_LinkUniqueness ==
    [][/\ (LinkStep /\ contains_key(CosmosAccounts, last'.args[1]))
            => (last'.result = "AccountAlreadyLinked"
                    /\ CosmosAccounts' = CosmosAccounts)
       /\ \A a \in LinkAddresses :
            Cardinality({ i \in 1..Len(events') :
                            /\ events'[i].name = "CosmosAccountLinked"
                            /\ events'[i].cosmos_address = a }) <= 1
      ]_vars

\* C4 witness: an account other than the linked one has just been refused the
\* linked address.
C4_Witness ==
    /\ last.call = "link_cosmos_account"
    /\ last.result = "AccountAlreadyLinked"
    /\ contains_key(CosmosAccounts, last.args[1])
    /\ CosmosAccounts[last.args[1]] # last.origin

C6_DuplicateConflict ==
    [][(/\ InitiateStep
        /\ contains_key(CrossChainTransactions,
                        hash_of(last'.origin, last'.args[1], last'.args[2])))
       => /\ last'.result # "Ok"
          /\ CrossChainTransactions' = CrossChainTransactions
          /\ UNCHANGED <<free_balance, reserved_balance>>
      ]_vars

\* C7: an initiate_cross_chain_tx for more than the caller's free balance
\* fails with InsufficientBalance and leaves balances, records, links and
\* events as they were.
C7_InsufficientBalance ==
    [][(InitiateStep /\ free_balance[last'.origin] < last'.args[2])
       => (last'.result = "InsufficientBalance" /\ UNCHANGED Frame)
      ]_vars

\* C7 witness: an account that has reserved funds has just been refused an
\* amount above what it has left.
C7_Witness ==
    /\ last.call = "initiate_cross_chain_tx"
    /\ last.result = "InsufficientBalance"
    /\ free_balance[last.origin] < last.args[2]
    /\ reserved_balance[last.origin] > 0

\* C8: a successful initiate_cross_chain_tx leaves, under the derived hash, a
\* record of the caller, the destination and the amount with status
\* Initiated; a complete_cross_chain_tx of an Initiated record succeeds and
\* leaves the same record with status Completed.
C8_Lifecycle ==
    [][/\ (InitiateStep /\ last'.result = "Ok") =>
            LET h == hash_of(last'.origin, last'.args[1], last'.args[2])
            IN  /\ contains_key(CrossChainTransactions', h)
                /\ CrossChainTransactions'[h] =
                       [from |-> last'.origin,
                        to_cosmos_address |-> last'.args[1],
                        amount |-> last'.args[2],
                        status |-> "Initiated"]
       /\ (/\ CompleteStep
           /\ contains_key(CrossChainTransactions, last'.args[1])
           /\ CrossChainTransactions[last'.args[1]].status = "Initiated") =>
            LET h == last'.args[1]
            IN  /\ last'.result = "Ok"
                /\ contains_key(CrossChainTransactions', h)
                /\ CrossChainTransactions'[h] =
                       [CrossChainTransactions[h] EXCEPT !.status = "Completed"]
      ]_vars

\* C8 witness: a positive amount was initiated and the very next event is the
\* completion of that transaction, whose record is now Completed.
C8_Witness ==
    /\ Len(events) >= 2
    /\ last.call = "complete_cross_chain_tx"
    /\ last.result = "Ok"
    /\ LET done == events[Len(events)]
           made == events[Len(events) - 1]
       IN  /\ done.name = "CrossChainTransactionCompleted"
           /\ made.name = "CrossChainTransactionInitiated"
           /\ made.tx_hash = done.tx_hash
           /\ made.amount > 0
           /\ CrossChainTransactions[done.tx_hash] =
                  [from |-> made.from,
                   to_cosmos_address |-> made.to_cosmos_address,
                   amount |-> made.amount, status |-> "Completed"]

\* C9: a stored link stays stored, to the same account, in every later step.
C9_LinkImmutable ==
    [][\A a \in DOMAIN CosmosAccounts :
          /\ a \in DOMAIN CosmosAccounts'
          /\ CosmosAccounts'[a] = CosmosAccounts[a]
      ]_vars

\* C9 witness: a link was stored, a transaction was then initiated, another
\* account was then refused the address, and the link is the one that was
\* stored.
C9_Witness ==
    /\ Len(events) >= 2
    /\ events[1].name = "CosmosAccountLinked"
    /\ events[2].name = "CrossChainTransactionInitiated"
    /\ last.call = "link_cosmos_account"
    /\ last.result = "AccountAlreadyLinked"
    /\ last.args[1] = events[1].cosmos_address
    /\ last.origin # events[1].substrate_account
    /\ CosmosAccounts[events[1].cosmos_address] = events[1].substrate_account

\* C10: a link_cosmos_account with an address shorter than 20 or longer than
\* 255 bytes fails with InvalidCosmosAddress and stores and deposits nothing;
\* with a length from 20 to 255 and no link for the address it succeeds and
\* stores the link.
C10_AddressLength ==
    [][LinkStep =>
          LET a == last'.args[1]
          IN  /\ (len(a) < MinCosmosAddressLen \/ len(a) > MaxCosmosAddressLen)
                    => (last'.result = "InvalidCosmosAddress" /\ UNCHANGED Frame)
              /\ (/\ len(a) >= MinCosmosAddressLen
                  /\ len(a) <= MaxCosmosAddressLen
                  /\ ~contains_key(CosmosAccounts, a))
                    => /\ last'.result = "Ok"
                       /\ CosmosAccounts' = insert(CosmosAccounts, a, last'.origin)
      ]_vars

\* C10 witness: the addresses of 20 and of 255 bytes are linked and one of 256
\* bytes has just been refused.
C10_Witness ==
    /\ \E a \in DOMAIN CosmosAccounts : len(a) = MinCosmosAddressLen
    /\ \E a \in DOMAIN CosmosAccounts : len(a) = MaxCosmosAddressLen
    /\ last.call = "link_cosmos_account"
    /\ last.result = "InvalidCosmosAddress"
    /\ len(last.args[1]) = MaxCosmosAddressLen + 1

\* C11: an initiate_cross_chain_tx with amount 0 is rejected and stores,
\* reserves and deposits nothing.
C11_ZeroAmountRejected ==
    [][(InitiateStep /\ last'.args[2] = 0)
       => (last'.result # "Ok" /\ UNCHANGED Frame)
      ]_vars

\* C12: a stored transaction record stays stored with the same initiator,
\* destination and amount, and an existing record is changed by no call but
\* complete_cross_chain_tx.
C12_AuditTrail ==
    [][\A h \in DOMAIN CrossChainTransactions :
          /\ h \in DOMAIN CrossChainTransactions'
          /\ CrossChainTransactions'[h].from = CrossChainTransactions[h].from
          /\ CrossChainTransactions'[h].to_cosmos_address =
                 CrossChainTransactions[h].to_cosmos_address
          /\ CrossChainTransactions'[h].amount = CrossChainTransactions[h].amount
          /\ (CrossChainTransactions'[h] # CrossChainTransactions[h]
                 => last'.call = "complete_cross_chain_tx")
      ]_vars

\* C13: a complete_cross_chain_tx of a hash that holds no record fails with
\* TransactionNotFound and leaves records, links, balances and events as
\* they were.
C13_CompleteUnknown ==
    [][(CompleteStep /\ ~contains_key(CrossChainTransactions, last'.args[1]))
       => (last'.result = "TransactionNotFound" /\ UNCHANGED Frame)
      ]_vars

\* C13 witness: while another record is stored, a hash without a record has
\* just been refused.
C13_Witness ==
    /\ last.call = "complete_cross_chain_tx"
    /\ last.result = "TransactionNotFound"
    /\ ~contains_key(CrossChainTransactions, last.args[1])
    /\ DOMAIN CrossChainTransactions # {}

\* C14: what a complete_cross_chain_tx returns and the state it leaves are
\* decided by the stored state and the hash alone, the same for every signed
\* caller: it succeeds on every stored record, whoever initiated it.
C14_CallerIndependent ==
    [][CompleteStep =>
          LET h == last'.args[1]
          IN  IF contains_key(CrossChainTransactions, h) THEN
                  /\ last'.result = "Ok"
                  /\ CrossChainTransactions' =
                         [CrossChainTransactions EXCEPT ![h].status = "Completed"]
                  /\ events' = Append(events,
                         [name |-> "CrossChainTransactionCompleted", tx_hash |-> h])
                  /\ UNCHANGED <<CosmosAccounts, free_balance, reserved_balance>>
              ELSE
                  /\ last'.result = "TransactionNotFound"
                  /\ UNCHANGED Frame
      ]_vars

\* C14 witness: an account that did not initiate the transaction, and is
\* linked to no address, has just completed it, right after its initiation.
C14_Witness ==
    /\ Len(events) >= 2
    /\ last.call = "complete_cross_chain_tx"
    /\ last.result = "Ok"
    /\ events[Len(events) - 1].name = "CrossChainTransactionInitiated"
    /\ events[Len(events) - 1].tx_hash = last.args[1]
    /\ events[Len(events) - 1].from # last.origin
    /\ CrossChainTransactions[last.args[1]].from # last.origin
    /\ CrossChainTransactions[last.args[1]].status = "Completed"
    /\ \A a \in DOMAIN CosmosAccounts : CosmosAccounts[a] # last.origin

\* What the claims call valid text: a byte string that is UTF-8.
ValidText(ptr) == \A bytes \in ptr : len(bytes) = 0 \/ bytes.byte < 128

\* C15: utils::validate_cosmos_address answers true exactly for the
\* addresses of 20 to 255 bytes, false for 19 and for 256 bytes, and answers
\* as the length check of link_cosmos_account does on the same bytes.
C15_ValidationBoundary ==
    last.call = "utils::validate_cosmos_address" =>
        LET address == last.args[1]
        IN  /\ last.result = (len(address) >= 20 /\ len(address) <= 255)
            /\ (len(address) \in {19, 256} => last.result = FALSE)
            /\ last.result = ValidCosmosAddressLen(address)

\* C15 witness: an address of 256 bytes has just been answered false.
C15_Witness ==
    /\ last.call = "utils::validate_cosmos_address"
    /\ len(last.args[1]) = 256
    /\ last.result = FALSE

\* C16: create_cross_chain_transaction returns null when a pointer is null
\* or a chain name is not valid text, and returns a string only when all
\* three pointers are set and both chain names are valid text; the ffi
\* address checks return 0 for a null pointer and for bytes that are not
\* valid text; none of these calls crashes.
C16_BoundarySentinel ==
    /\ last.call = "ffi::create_cross_chain_transaction" =>
          LET invalid == \/ is_null(last.args[1])
                         \/ is_null(last.args[2])
                         \/ is_null(last.args[3])
                         \/ ~ValidText(last.args[1])
                         \/ ~ValidText(last.args[2])
          IN  /\ invalid => kind(last.result) = "null"
              /\ kind(last.result) = "string" => ~invalid
    /\ last.call \in {"ffi::validate_cosmos_address",
                      "ffi::validate_polkadot_address"} =>
          ((is_null(last.args[1]) \/ ~ValidText(last.args[1]))
              => last.result = 0)

\* C16 witness: a call with a valid source chain, a payload and a destination
\* chain that is not valid text has just returned null.
C16_Witness ==
    /\ last.call = "ffi::create_cross_chain_transaction"
    /\ ~is_null(last.args[1]) /\ ValidText(last.args[1])
    /\ ~is_null(last.args[2]) /\ ~ValidText(last.args[2])
    /\ ~is_null(last.args[3])
    /\ kind(last.result) = "null"

PalletCalls ==
    {"link_cosmos_account", "initiate_cross_chain_tx", "complete_cross_chain_tx"}

\* C17: a call that returns Ok appends exactly one event, the one of its
\* kind, carrying the arguments of the call; a call that returns an error
\* appends none.
C17_EventLog ==
    [][/\ (last'.call = "link_cosmos_account" /\ last'.result = "Ok") =>
            events' = Append(events,
                [name |-> "CosmosAccountLinked",
                 cosmos_address |-> last'.args[1],
                 substrate_account |-> last'.origin])
       /\ (last'.call = "initiate_cross_chain_tx" /\ last'.result = "Ok") =>
            events' = Append(events,
                [name |-> "CrossChainTransactionInitiated",
                 from |-> last'.origin,
                 to_cosmos_address |-> last'.args[1],
                 amount |-> last'.args[2],
                 tx_hash |-> hash_of(last'.origin, last'.args[1], last'.args[2])])
       /\ (last'.call = "complete_cross_chain_tx" /\ last'.result = "Ok") =>
            events' = Append(events,
                [name |-> "CrossChainTransactionCompleted",
                 tx_hash |-> last'.args[1]])
       /\ (last'.call \in PalletCalls /\ last'.result # "Ok") =>
            events' = events
      ]_vars

\* C17 witness: a positive amount was initiated and completed, each leaving
\* its one event, and a link has then failed and left none.
C17_Witness ==
    /\ Len(events) = 2
    /\ events[1].name = "CrossChainTransactionInitiated"
    /\ events[1].amount > 0
    /\ events[2] = [name |-> "CrossChainTransactionCompleted",
                    tx_hash |-> events[1].tx_hash]
    /\ last.call = "link_cosmos_account"
    /\ last.result # "Ok"

\* C18: the free and the reserved balance of every account add up, in every
\* reachable state, to what the account started with.
C18_FundsPreserved ==
    \A a \in Accounts :
        free_balance[a] + reserved_balance[a] = InitialBalance(a)

\* C18 witness: funds are reserved and a transaction has been completed.
C18_Witness ==
    /\ \E a \in Accounts : reserved_balance[a] > 0
    /\ \E h \in DOMAIN CrossChainTransactions :
           CrossChainTransactions[h].status = "Completed"
    /\ last.call = "complete_cross_chain_tx"
    /\ last.result = "Ok"

\* The sum of the amounts of the records among hashes that are Initiated and
\* come from account a.
RECURSIVE PendingAmount(_, _)
PendingAmount(a, hashes) ==
    IF hashes = {} THEN 0
    ELSE LET h == CHOOSE x \in hashes : TRUE
             tx == CrossChainTransactions[h]
         IN  (IF tx.from = a /\ tx.status = "Initiated" THEN tx.amount ELSE 0)
                 + PendingAmount(a, hashes \ {h})

C20_NeverReleased ==
    [][/\ \A a \in Accounts :
            /\ reserved_balance'[a] >= reserved_balance[a]
            /\ free_balance'[a] <= free_balance[a]
       /\ last'.call = "complete_cross_chain_tx" =>
            /\ UNCHANGED <<free_balance, reserved_balance, CosmosAccounts>>
            /\ DOMAIN CrossChainTransactions' = DOMAIN CrossChainTransactions
            /\ \A h \in DOMAIN CrossChainTransactions :
                  IF h = last'.args[1]
                  THEN [CrossChainTransactions'[h] EXCEPT !.status = "x"] =
                           [CrossChainTransactions[h] EXCEPT !.status = "x"]
                  ELSE CrossChainTransactions'[h] = CrossChainTransactions[h]
      ]_vars

\* C20 witness: a transaction of a positive amount has just been completed
\* and its amount is still reserved.
C20_Witness ==
    /\ last.call = "complete_cross_chain_tx"
    /\ last.result = "Ok"
    /\ LET tx == CrossChainTransactions[last.args[1]]
       IN  /\ tx.status = "Completed"
           /\ tx.amount > 0
           /\ reserved_balance[tx.from] >= tx.amount
           /\ free_balance[tx.from] = InitialBalance(tx.from) - reserved_balance[tx.from]

\* C21: in every reachable state every stored transaction record holds a
\* status of the enum, and that status is Initiated or Completed, never
\* Failed.
C21_FailedUnreachable ==
    \A h \in DOMAIN CrossChainTransactions :
        /\ CrossChainTransactions[h].status \in TxStatus
        /\ CrossChainTransactions[h].status \in {"Initiated", "Completed"}
        /\ CrossChainTransactions[h].status # "Failed"

\* C21 witness: a record that is Initiated and a record that is Completed
\* are stored together, the last one just written by a completion.
C21_Witness ==
    /\ \E h \in DOMAIN CrossChainTransactions :
           CrossChainTransactions[h].status = "Initiated"
    /\ \E h \in DOMAIN CrossChainTransactions :
           CrossChainTransactions[h].status = "Completed"
    /\ Cardinality(DOMAIN CrossChainTransactions) >= 2
    /\ last.call = "complete_cross_chain_tx"
    /\ last.result = "Ok"
    /\ CrossChainTransactions[last.args[1]].status = "Completed"
====
